---- MODULE Spec2Model ----
(***************************************************************************)
(* Model of share/FASTQFile.py: FastqIterator, FastqRead,                  *)
(* SequenceIdentifier and nreads.                                          *)
(*                                                                         *)
(* A Python string is a sequence of one-character strings.  A file is its  *)
(* content `data`; a file object is a record [pos, closed] over `data`.    *)
(***************************************************************************)
EXTENDS Integers, Sequences, FiniteSets, TLC

VARIABLES
    lines,          \* the text lines the file was written from (no terminators)
    data,           \* the content of the FASTQ file, a sequence of characters
    it_pc,          \* FastqIterator: "none", "ready", "failed" (constructor raised)
    it_fastq_file,  \* FastqIterator.__fastq_file
    it_fp,          \* FastqIterator.__fp
    it_opened,      \* TRUE iff FastqIterator.__init__ called open()/gzip.open()
    it_last,        \* outcome of the last call of next()
    records,        \* the FastqRead objects returned by next(), in order
    nr_pc,          \* nreads: "idle", "reading", "returned", "raised"
    nr_fastq,       \* nreads argument fastq
    nr_fp_arg,      \* TRUE iff nreads was given an fp argument
    nr_fp,          \* nreads local fp
    nr_opened,      \* TRUE iff nreads called open()/gzip.open()
    buf_size,       \* nreads local buf_size
    buf,            \* nreads local buf
    nlines,         \* nreads local nlines
    nr_result,      \* value returned by nreads
    sid_pc,         \* SequenceIdentifier: "new", "constructed", "printed"
    seqid_arg,      \* the argument of SequenceIdentifier.__init__
    sid,            \* the attributes of the SequenceIdentifier object
    sid_str,        \* the value of str(SequenceIdentifier)
    edits           \* number of edits made to a seed string to get seqid_arg

file_vars == <<lines, data>>
it_vars == <<it_pc, it_fastq_file, it_fp, it_opened, it_last, records>>
nr_vars == <<nr_pc, nr_fastq, nr_fp_arg, nr_fp, nr_opened, buf_size, buf, nlines, nr_result>>
sid_vars == <<sid_pc, seqid_arg, sid, sid_str, edits>>
vars == <<lines, data, it_pc, it_fastq_file, it_fp, it_opened, it_last, records,
          nr_pc, nr_fastq, nr_fp_arg, nr_fp, nr_opened, buf_size, buf, nlines,
          nr_result, sid_pc, seqid_arg, sid, sid_str, edits>>

(***************************************************************************)
(* Bounds of the model.                                                    *)
(***************************************************************************)
MaxLines == 8
MaxBufSize == 3

(***************************************************************************)
(* Python values.                                                          *)
(***************************************************************************)
\* None is distinct from every string: a string is a sequence of characters.
None == <<"None">>
NL == "\n"
\* a file name without the '.gz' extension
Path == <<"r", ".", "f", "q">>

\* The characters str.strip() removes when called without arguments.
Whitespace == {" ", "\t", "\n", "\r"}

SetMin(S) == CHOOSE x \in S : \A y \in S : x <= y
SetMax(S) == CHOOSE x \in S : \A y \in S : x >= y

\* str.strip()
strip(s) ==
    LET keep == {i \in 1..Len(s) : s[i] \notin Whitespace}
    IN  IF keep = {} THEN <<>> ELSE SubSeq(s, SetMin(keep), SetMax(keep))

\* str.count(ch)
count(s, ch) == Cardinality({i \in 1..Len(s) : s[i] = ch})

\* readline with an off-by-one: the terminator is searched from the last
\* character consumed instead of the first one not yet consumed
readline_off_by_one(d, pos) ==
    LET nls == {i \in pos..Len(d) : i >= 1 /\ d[i] = NL}
    IN  IF nls = {} THEN SubSeq(d, pos + 1, Len(d))
        ELSE SubSeq(d, pos + 1, SetMin(nls))

\* file.readline() on content d at offset pos: the characters up to and
\* including the next line terminator, or up to the end of the content.
readline(d, pos) ==
    LET nls == {i \in (pos + 1)..Len(d) : d[i] = NL}
    IN  IF nls = {} THEN SubSeq(d, pos + 1, Len(d))
        ELSE SubSeq(d, pos + 1, SetMin(nls))

\* file.read(n) on content d at offset pos.
read(d, pos, n) ==
    SubSeq(d, pos + 1, IF pos + n < Len(d) THEN pos + n ELSE Len(d))

NewFile == [pos |-> 0, closed |-> FALSE]
NoFile == [pos |-> 0, closed |-> TRUE]

(***************************************************************************)
(* The input file: up to MaxLines lines, each terminated by a newline      *)
(* except, optionally, the last one.                                       *)
(***************************************************************************)
LineSet == { <<>>, <<"A">>, <<" ", "C", " ">> }

RECURSIVE Join(_, _)
Join(ls, eol) ==
    IF ls = <<>> THEN <<>>
    ELSE IF Len(ls) = 1 THEN (IF eol THEN ls[1] \o <<NL>> ELSE ls[1])
    ELSE ls[1] \o <<NL>> \o Join(Tail(ls), eol)

FileInit ==
    /\ \E n \in 0..MaxLines : lines \in [1..n -> LineSet]
    /\ \E eol \in BOOLEAN :
          /\ (~eol => (lines /= <<>> /\ lines[Len(lines)] /= <<>>))
          /\ data = Join(lines, eol)

(***************************************************************************)
(* FastqRead                                                               *)
(***************************************************************************)
FastqRead(seqid_line, seq_line, optid_line, quality_line) ==
    [ seqid    |-> seqid_line,
      sequence |-> strip(seq_line),
      optid    |-> strip(optid_line),
      quality  |-> strip(quality_line) ]

(***************************************************************************)
(* FastqIterator                                                           *)
(***************************************************************************)
ItInit ==
    /\ it_pc = "none"
    /\ it_fastq_file = None
    /\ it_fp = NoFile
    /\ it_opened = FALSE
    /\ it_last = "none"
    /\ records = <<>>

\* FastqIterator(fastq_file, fp): fp_given says whether fp is an open file
\* object supplied by the caller (at the start of the content) or None.
FastqIterator_init(fastq_file, fp_given) ==
    /\ it_pc = "none"
    /\ it_fastq_file' = fastq_file
    /\ IF ~fp_given
       THEN IF fastq_file = None
            THEN \* os.path.splitext(None) raises
                 /\ it_pc' = "failed"
                 /\ UNCHANGED <<it_fp, it_opened>>
            ELSE /\ it_pc' = "ready"
                 /\ it_fp' = NewFile
                 /\ it_opened' = TRUE
       ELSE /\ it_pc' = "ready"
            /\ it_fp' = NewFile
            /\ it_opened' = FALSE
    /\ UNCHANGED <<it_last, records>>

\* FastqIterator.next()
FastqIterator_next ==
    /\ it_pc = "ready"
    /\ IF it_fp.closed
       THEN \* readline() on a closed file raises ValueError
            /\ it_last' = "ValueError"
            /\ UNCHANGED <<it_fp, records>>
       ELSE LET seqid_line   == readline(data, it_fp.pos)
                p1           == it_fp.pos + Len(seqid_line)
                seq_line     == readline(data, p1)
                p2           == p1 + Len(seq_line)
                optid_line   == readline(data, p2)
                p3           == p2 + Len(optid_line)
                quality_line == readline(data, p3)
                p4           == p3 + Len(quality_line)
            IN  IF quality_line /= <<>>
                THEN /\ records' = Append(records,
                            FastqRead(seqid_line, seq_line, optid_line, quality_line))
                     /\ it_fp' = [it_fp EXCEPT !.pos = p4]
                     /\ it_last' = "record"
                ELSE /\ it_fp' = [pos |-> p4,
                                  closed |-> (it_fastq_file = None)]
                     /\ it_last' = "StopIteration"
                     /\ UNCHANGED records
    /\ UNCHANGED <<it_pc, it_fastq_file, it_opened>>

(***************************************************************************)
(* nreads                                                                  *)
(***************************************************************************)
NrInit ==
    /\ nr_pc = "idle"
    /\ nr_fastq = None
    /\ nr_fp_arg = FALSE
    /\ nr_fp = NoFile
    /\ nr_opened = FALSE
    /\ buf_size = 1
    /\ buf = <<>>
    /\ nlines = 0
    /\ nr_result = None

\* nreads(fastq, fp) up to the first read: fp_given says whether fp is an
\* open file object supplied by the caller or None; bs is the chunk size.
nreads_call(fastq, fp_given, bs) ==
    /\ nr_pc = "idle"
    /\ nr_fastq' = fastq
    /\ nr_fp_arg' = fp_given
    /\ buf_size' = bs
    /\ nlines' = 0
    /\ IF ~fp_given /\ fastq = None
       THEN \* os.path.splitext(None) raises
            /\ nr_pc' = "raised"
            /\ nr_result' = "TypeError"
            /\ UNCHANGED <<nr_fp, nr_opened, buf>>
       ELSE /\ nr_pc' = "reading"
            /\ nr_opened' = ~fp_given
            /\ buf' = read(data, 0, bs)
            /\ nr_fp' = [pos |-> Len(read(data, 0, bs)), closed |-> FALSE]
            /\ UNCHANGED nr_result

\* one iteration of the loop `while buf:`
nreads_loop ==
    /\ nr_pc = "reading"
    /\ buf /= <<>>
    /\ nlines' = nlines + count(buf, NL)
    /\ buf' = read(data, nr_fp.pos, buf_size)
    /\ nr_fp' = [nr_fp EXCEPT !.pos = nr_fp.pos + Len(read(data, nr_fp.pos, buf_size))]
    /\ UNCHANGED <<nr_pc, nr_fastq, nr_fp_arg, nr_opened, buf_size, nr_result>>

\* the line count returned without the division
ReadCount_no_division(n) == n

\* the value nreads returns for a line count divisible by 4
ReadCount(n) == n \div 4

\* after the loop: close, check, return
nreads_exit ==
    /\ nr_pc = "reading"
    /\ buf = <<>>
    /\ nr_fp' = [nr_fp EXCEPT !.closed = (nr_fastq /= None)]
    /\ IF nlines % 4 /= 0
       THEN /\ nr_pc' = "raised"
            /\ nr_result' = "Exception"
       ELSE /\ nr_pc' = "returned"
            /\ nr_result' = ReadCount(nlines)
    /\ UNCHANGED <<nr_fastq, nr_fp_arg, nr_opened, buf_size, buf, nlines>>

\* Regular expressions.  A pattern is a sequence of elements, matched the
\* way re.match does: from the start of the string, each group greedy,
\* backtracking to shorter groups.
\*   Lit(c)           the character c
\*   Grp(X, m, many)  a capturing group of characters not in X:
\*                    [^X]+ is Grp(X,1,TRUE), [^X]* is Grp(X,0,TRUE),
\*                    [^X] is Grp(X,1,FALSE), .+ is Grp({NL},1,TRUE)
\*   Eos              $ : the end of the string, or just before a newline
\*                    that ends the string
Lit(c) == [kind |-> "lit", ch |-> c, excl |-> {}, min |-> 1, many |-> FALSE]
Grp(X, m, many) == [kind |-> "grp", ch |-> "", excl |-> X, min |-> m, many |-> many]
Eos == [kind |-> "eos", ch |-> "", excl |-> {}, min |-> 0, many |-> FALSE]

NoMatch == [ok |-> FALSE, groups |-> <<>>]

\* the number of consecutive characters of s from index pos that are not in X
Run(s, pos, X) ==
    LET bad == {i \in pos..Len(s) : s[i] \in X}
    IN  IF bad = {} THEN Len(s) - pos + 1 ELSE SetMin(bad) - pos

RECURSIVE MatchFrom(_, _, _, _), TryLen(_, _, _, _, _)
\* match the elements k.. of pat against s from index pos
MatchFrom(pat, k, s, pos) ==
    IF k > Len(pat) THEN [ok |-> TRUE, groups |-> <<>>]
    ELSE IF pat[k].kind = "lit"
         THEN IF pos <= Len(s) /\ s[pos] = pat[k].ch
              THEN MatchFrom(pat, k + 1, s, pos + 1)
              ELSE NoMatch
    ELSE IF pat[k].kind = "eos"
         THEN IF pos = Len(s) + 1 \/ (pos = Len(s) /\ s[pos] = NL)
              THEN MatchFrom(pat, k + 1, s, pos)
              ELSE NoMatch
    ELSE LET run == Run(s, pos, pat[k].excl)
         IN  TryLen(pat, k, s, pos,
                    IF pat[k].many \/ run = 0 THEN run ELSE 1)

\* the group pat[k] takes n characters, or fewer if the rest does not match
TryLen(pat, k, s, pos, n) ==
    IF n < pat[k].min THEN NoMatch
    ELSE LET r == MatchFrom(pat, k + 1, s, pos + n)
         IN  IF r.ok
             THEN [ok |-> TRUE, groups |-> <<SubSeq(s, pos, pos + n - 1)>> \o r.groups]
             ELSE TryLen(pat, k, s, pos, n - 1)

\* pattern.match(s)
re_match(pat, s) == MatchFrom(pat, 1, s, 1)

\* the Illumina 1.8+ pattern with a last group ([^\:]+) that must not be empty
ILLUMINA18_SEQID_index_required ==
    << Lit("@"),
       Grp({":"}, 1, TRUE), Lit(":"), Grp({":"}, 1, TRUE), Lit(":"),
       Grp({":"}, 1, TRUE), Lit(":"), Grp({":"}, 1, TRUE), Lit(":"),
       Grp({":"}, 1, TRUE), Lit(":"), Grp({":"}, 1, TRUE), Lit(":"),
       Grp({" "}, 1, TRUE), Lit(" "),
       Grp({":"}, 1, TRUE), Lit(":"), Grp({":"}, 1, TRUE), Lit(":"),
       Grp({":"}, 1, TRUE), Lit(":"), Grp({":"}, 1, TRUE), Eos >>

\* ^@([^\:]+):([^\:]+):([^\:]+):([^\:]+):([^\:]+):([^\:]+):([^ ]+) ([^\:]+):([^\:]+):([^\:]+):([^\:]*)$
ILLUMINA18_SEQID ==
    << Lit("@"),
       Grp({":"}, 1, TRUE), Lit(":"), Grp({":"}, 1, TRUE), Lit(":"),
       Grp({":"}, 1, TRUE), Lit(":"), Grp({":"}, 1, TRUE), Lit(":"),
       Grp({":"}, 1, TRUE), Lit(":"), Grp({":"}, 1, TRUE), Lit(":"),
       Grp({" "}, 1, TRUE), Lit(" "),
       Grp({":"}, 1, TRUE), Lit(":"), Grp({":"}, 1, TRUE), Lit(":"),
       Grp({":"}, 1, TRUE), Lit(":"), Grp({":"}, 0, TRUE), Eos >>

\* ^@([^\:]+):([^\:]+):([^\:]+):([^\:]+):([^\#]+)#([^/])/(.+)$
ILLUMINA_SEQID ==
    << Lit("@"),
       Grp({":"}, 1, TRUE), Lit(":"), Grp({":"}, 1, TRUE), Lit(":"),
       Grp({":"}, 1, TRUE), Lit(":"), Grp({":"}, 1, TRUE), Lit(":"),
       Grp({"#"}, 1, TRUE), Lit("#"), Grp({"/"}, 1, FALSE), Lit("/"),
       Grp({NL}, 1, TRUE), Eos >>

(***************************************************************************)
(* SequenceIdentifier                                                      *)
(***************************************************************************)
\* the attributes set when the Illumina 1.8+ pattern matched with groups g
Illumina18Attrs(seqid, g) ==
    [ seqid |-> seqid, format |-> "illumina18",
      instrument_name |-> g[1], run_id |-> g[2], flowcell_id |-> g[3],
      flowcell_lane |-> g[4], tile_no |-> g[5], x_coord |-> g[6],
      y_coord |-> g[7], multiplex_index_no |-> None, pair_id |-> g[8],
      bad_read |-> g[9], control_bit_flag |-> g[10], index_sequence |-> g[11] ]

\* the attributes set when the Illumina pattern matched with groups g
IlluminaAttrs(seqid, g) ==
    [ seqid |-> seqid, format |-> "illumina",
      instrument_name |-> g[1], run_id |-> None, flowcell_id |-> None,
      flowcell_lane |-> g[2], tile_no |-> g[3], x_coord |-> g[4],
      y_coord |-> g[5], multiplex_index_no |-> g[6], pair_id |-> g[7],
      bad_read |-> None, control_bit_flag |-> None, index_sequence |-> None ]

\* the branches of __init__ with the Illumina pattern tested first
Classify_illumina_first(seqid, illumina18, illumina) ==
    IF illumina.ok THEN IlluminaAttrs(seqid, illumina.groups)
    ELSE IF illumina18.ok THEN Illumina18Attrs(seqid, illumina18.groups)
    ELSE [seqid |-> seqid, format |-> "None"]

\* the branches of __init__ on the two match results; the format None is
\* written "None" and the object then has no other attribute than __seqid
Classify(seqid, illumina18, illumina) ==
    IF illumina18.ok THEN Illumina18Attrs(seqid, illumina18.groups)
    ELSE IF illumina.ok THEN IlluminaAttrs(seqid, illumina.groups)
    ELSE [seqid |-> seqid, format |-> "None"]

\* SequenceIdentifier(seqid): the attributes of the new object
SequenceIdentifier(seqid) ==
    LET s == strip(seqid)
    IN  Classify(s, re_match(ILLUMINA18_SEQID, s), re_match(ILLUMINA_SEQID, s))

\* the Illumina 1.8+ layout with ':' in the place of the space
ReprIllumina18_colon_for_space(o) ==
    <<"@">> \o o.instrument_name \o <<":">> \o o.run_id \o <<":">>
        \o o.flowcell_id \o <<":">> \o o.flowcell_lane \o <<":">>
        \o o.tile_no \o <<":">> \o o.x_coord \o <<":">> \o o.y_coord
        \o <<":">> \o o.pair_id \o <<":">> \o o.bad_read \o <<":">>
        \o o.control_bit_flag \o <<":">> \o o.index_sequence

\* "@%s:%s:%s:%s:%s:%s:%s %s:%s:%s:%s"
ReprIllumina18(o) ==
    <<"@">> \o o.instrument_name \o <<":">> \o o.run_id \o <<":">>
        \o o.flowcell_id \o <<":">> \o o.flowcell_lane \o <<":">>
        \o o.tile_no \o <<":">> \o o.x_coord \o <<":">> \o o.y_coord
        \o <<" ">> \o o.pair_id \o <<":">> \o o.bad_read \o <<":">>
        \o o.control_bit_flag \o <<":">> \o o.index_sequence

\* "@%s:%s:%s:%s:%s#%s/%s"
ReprIllumina(o) ==
    <<"@">> \o o.instrument_name \o <<":">> \o o.flowcell_lane \o <<":">>
        \o o.tile_no \o <<":">> \o o.x_coord \o <<":">> \o o.y_coord
        \o <<"#">> \o o.multiplex_index_no \o <<"/">> \o o.pair_id

\* SequenceIdentifier.__repr__
SequenceIdentifier_repr(o) ==
    IF o.format = "illumina18" THEN ReprIllumina18(o)
    ELSE IF o.format = "illumina" THEN ReprIllumina(o)
    ELSE o.seqid

\* no SequenceIdentifier is involved
SidIdle ==
    /\ sid_pc = "new"
    /\ seqid_arg = <<>>
    /\ sid = [seqid |-> <<>>, format |-> "None"]
    /\ sid_str = <<>>
    /\ edits = 0

\* seqid = SequenceIdentifier(seqid_arg)
Sid_init ==
    /\ sid_pc = "new"
    /\ sid_pc' = "constructed"
    /\ sid' = SequenceIdentifier(seqid_arg)
    /\ UNCHANGED <<seqid_arg, sid_str, edits>>

\* str(seqid)
Sid_str ==
    /\ sid_pc = "constructed"
    /\ sid_pc' = "printed"
    /\ sid_str' = SequenceIdentifier_repr(sid)
    /\ UNCHANGED <<seqid_arg, sid, edits>>

(***************************************************************************)
(* The identifier strings given to SequenceIdentifier: the seed strings    *)
(* and every string at most MaxEdits single-character edits away from one. *)
(***************************************************************************)
MaxEdits == 1

EditChars == {"@", ":", " ", "#", "/", NL, "x"}

\* @a:b:c:d:e:f:g h:i:j:k
Seed18 == <<"@", "a", ":", "b", ":", "c", ":", "d", ":", "e", ":", "f", ":",
            "g", " ", "h", ":", "i", ":", "j", ":", "k">>
\* @a:b:c:d:e#m/p
SeedIllumina == <<"@", "a", ":", "b", ":", "c", ":", "d", ":", "e", "#", "m", "/", "p">>
\* @a:b:c:d:e:f:#m/ h:i:j:k
SeedBoth == <<"@", "a", ":", "b", ":", "c", ":", "d", ":", "e", ":", "f", ":",
              "#", "m", "/", " ", "h", ":", "i", ":", "j", ":", "k">>
\* @ab
SeedOther == <<"@", "a", "b">>

Seeds == {Seed18, SeedIllumina, SeedBoth, SeedOther}

Edits1(s) ==
    {SubSeq(s, 1, i) \o <<c>> \o SubSeq(s, i + 1, Len(s)) : i \in 0..Len(s), c \in EditChars}
    \cup {[s EXCEPT ![i] = c] : i \in 1..Len(s), c \in EditChars}
    \cup {SubSeq(s, 1, i - 1) \o SubSeq(s, i + 1, Len(s)) : i \in 1..Len(s)}

SidInit ==
    /\ sid_pc = "new"
    /\ seqid_arg \in Seeds
    /\ sid = [seqid |-> <<>>, format |-> "None"]
    /\ sid_str = <<>>
    /\ edits = 0

(***************************************************************************)
(* Specification of the iterator: a file is iterated by one FastqIterator. *)
(***************************************************************************)
InitIter == FileInit /\ ItInit /\ NrInit /\ SidIdle

ItConstruct ==
    /\ \E fastq_file \in {None, Path}, fp_given \in BOOLEAN :
          FastqIterator_init(fastq_file, fp_given)
    /\ UNCHANGED <<file_vars, nr_vars, sid_vars>>

ItNext ==
    /\ FastqIterator_next
    /\ UNCHANGED <<file_vars, nr_vars, sid_vars>>

NextIter == ItConstruct \/ ItNext

SpecIter == InitIter /\ [][NextIter]_vars

(***************************************************************************)
(* Specification of nreads: one call of nreads on a file.                  *)
(***************************************************************************)
InitNreads == FileInit /\ ItInit /\ NrInit /\ SidIdle

NrCall ==
    /\ \E fastq \in {None, Path}, fp_given \in BOOLEAN, bs \in 1..MaxBufSize :
          nreads_call(fastq, fp_given, bs)
    /\ UNCHANGED <<file_vars, it_vars, sid_vars>>

NrLoop ==
    /\ nreads_loop
    /\ UNCHANGED <<file_vars, it_vars, sid_vars>>

NrExit ==
    /\ nreads_exit
    /\ UNCHANGED <<file_vars, it_vars, sid_vars>>

NextNreads == NrCall \/ NrLoop \/ NrExit

SpecNreads == InitNreads /\ [][NextNreads]_vars

(***************************************************************************)
(* Specification of the read count: a file is drained by a FastqIterator   *)
(* and then counted by nreads, both given a file object as in the tests.   *)
(***************************************************************************)
InitCount == FileInit /\ ItInit /\ NrInit /\ SidIdle

CountConstruct ==
    /\ FastqIterator_init(None, TRUE)
    /\ UNCHANGED <<file_vars, nr_vars, sid_vars>>

CountNext ==
    /\ it_last /= "StopIteration"
    /\ FastqIterator_next
    /\ UNCHANGED <<file_vars, nr_vars, sid_vars>>

CountCall ==
    /\ it_last = "StopIteration"
    /\ \E bs \in 1..MaxBufSize : nreads_call(None, TRUE, bs)
    /\ UNCHANGED <<file_vars, it_vars, sid_vars>>

NextCount == CountConstruct \/ CountNext \/ CountCall \/ NrLoop \/ NrExit

SpecCount == InitCount /\ [][NextCount]_vars

(***************************************************************************)
(* Specification of the identifier: one SequenceIdentifier is built from a *)
(* string and printed.                                                     *)
(***************************************************************************)
InitSeqId ==
    /\ lines = <<>>
    /\ data = <<>>
    /\ ItInit /\ NrInit /\ SidInit

SidConstruct ==
    /\ Sid_init
    /\ UNCHANGED <<file_vars, it_vars, nr_vars>>

SidPrint ==
    /\ Sid_str
    /\ UNCHANGED <<file_vars, it_vars, nr_vars>>

\* the caller prepares the argument: one more edit of the string
SidEdit ==
    /\ sid_pc = "new"
    /\ edits < MaxEdits
    /\ edits' = edits + 1
    /\ seqid_arg' \in Edits1(seqid_arg)
    /\ UNCHANGED <<sid_pc, sid, sid_str, file_vars, it_vars, nr_vars>>

NextSeqId == SidEdit \/ SidConstruct \/ SidPrint

SpecSeqId == InitSeqId /\ [][NextSeqId]_vars

(***************************************************************************)
(* Properties of FastqIterator and FastqRead (SpecIter).                   *)
(***************************************************************************)
\* the file ends with a line terminator
FinalEol == data /= <<>> /\ data[Len(data)] = NL

\* the i-th line as it stands in the file
FileLine(i) ==
    IF i < Len(lines) \/ FinalEol THEN lines[i] \o <<NL>> ELSE lines[i]

\* the file is made of complete 4-line groups
CompleteGroups == Len(lines) % 4 = 0

\* the number of complete 4-line groups of the file
NGroups == Len(lines) \div 4

\* the record of the g-th group
GroupRecord(g) ==
    [ seqid    |-> FileLine(4 * g - 3),
      sequence |-> strip(lines[4 * g - 2]),
      optid    |-> strip(lines[4 * g - 1]),
      quality  |-> strip(lines[4 * g]) ]

\* a call of next() on an iterator that has not signalled its end yet
Advancing == it_pc = "ready" /\ it_last \in {"none", "record"}

\* C1: over a file of N complete 4-line groups, each advance of a
\* FastqIterator that has returned i < N records returns the record of group
\* i + 1, and the advance after the N-th record raises StopIteration and
\* nothing else.
C1_YieldsGroupsInOrder ==
    [][ (CompleteGroups /\ Advancing) =>
            IF Len(records) < NGroups
            THEN /\ records' = Append(records, GroupRecord(Len(records) + 1))
                 /\ it_last' = "record"
            ELSE /\ records' = records
                 /\ Len(records) = NGroups
                 /\ it_last' = "StopIteration" ]_vars

C1_Witness ==
    /\ CompleteGroups /\ NGroups = 2
    /\ Len(records) = 2
    /\ records[1] /= records[2]
    /\ it_last = "StopIteration"

\* C2 (as claimed): when the file has 4N+k lines, k in 1..3, the iterator
\* never ends the iteration with StopIteration as if the file were complete,
\* and returns no more than the N complete records.
C2_IncompleteCycleRaises ==
    ~CompleteGroups =>
        /\ it_last /= "StopIteration"
        /\ Len(records) <= NGroups

\* C3 (as claimed): the iterator closes its file at exhaustion if and only if
\* it opened that file itself, and it never closes a file the caller gave.
C3_ClosesOnlyOwnFile ==
    it_pc = "ready" =>
        /\ (~it_opened => ~it_fp.closed)
        /\ (it_last = "StopIteration" => (it_fp.closed <=> it_opened))

\* C8 (as claimed): the sequence, optid and quality of a record are lines
\* 2, 3 and 4 of its group less one trailing line terminator, all other
\* whitespace kept.
C8_OnlyTerminatorRemoved ==
    \A g \in 1..Len(records) :
        /\ records[g].sequence = lines[4 * g - 2]
        /\ records[g].optid = lines[4 * g - 1]
        /\ records[g].quality = lines[4 * g]

(***************************************************************************)
(* Properties of nreads (SpecNreads, SpecCount).                           *)
(***************************************************************************)
\* the number of line terminators of the file
NumTerminators ==
    IF lines = <<>> THEN 0
    ELSE IF FinalEol THEN Len(lines) ELSE Len(lines) - 1

\* nreads ran to the end of its loop
NrFinished ==
    \/ nr_pc = "returned"
    \/ nr_pc = "raised" /\ nr_result = "Exception"

\* C4 (as claimed): on a file of N complete 4-line groups, with or without
\* the terminator of the last line, nreads returns N, the number of records
\* a FastqIterator returned for the same file.
C4_CountEqualsRecords ==
    (CompleteGroups /\ nr_pc \in {"returned", "raised"}) =>
        /\ nr_pc = "returned"
        /\ nr_result = NGroups
        /\ nr_result = Len(records)

\* C5: nreads reads chunks until a read returns nothing and has then counted
\* the L line terminators of the file, whatever the chunk size; it raises and
\* returns nothing when L is not divisible by 4, and returns L/4 otherwise.
C5_CountsTerminators ==
    /\ nr_pc = "reading" =>
          nlines + count(buf, NL) = count(SubSeq(data, 1, nr_fp.pos), NL)
    /\ NrFinished =>
          /\ nr_fp.pos = Len(data) /\ buf = <<>>
          /\ nlines = NumTerminators
          /\ (nr_pc = "raised" <=> NumTerminators % 4 /= 0)
          /\ nr_pc = "returned" => 4 * nr_result = NumTerminators

C5_Witness ==
    /\ nr_pc = "returned"
    /\ nr_result = 2
    /\ buf_size = 3

\* C9 (as claimed): when nreads has returned or raised, a file it opened is
\* closed, and a file object given by the caller is open and at the end of
\* the content.
C9_ReleasesOnlyOwnFile ==
    /\ nr_fp_arg => ~nr_fp.closed
    /\ nr_pc \in {"returned", "raised"} =>
          /\ (nr_opened => nr_fp.closed)
          /\ (nr_fp_arg => nr_fp.pos = Len(data))

(***************************************************************************)
(* Properties of SequenceIdentifier (SpecSeqId).                           *)
(***************************************************************************)
\* t is s without its leading and trailing whitespace
IsTrimOf(t, s) ==
    \E a, b \in 0..Len(s) :
        /\ a + b <= Len(s)
        /\ t = SubSeq(s, a + 1, Len(s) - b)
        /\ \A i \in 1..a : s[i] \in Whitespace
        /\ \A i \in (Len(s) - b + 1)..Len(s) : s[i] \in Whitespace
        /\ t /= <<>> => (t[1] \notin Whitespace /\ t[Len(t)] \notin Whitespace)

\* the positions of character c in s, and the n-th of a set of positions
Positions(s, c) == {i \in 1..Len(s) : s[i] = c}
Nth(S, n) == CHOOSE x \in S : Cardinality({y \in S : y < x}) = n - 1

\* the characters of s strictly between positions i and j
Between(s, i, j) == SubSeq(s, i + 1, j - 1)

\* The Illumina 1.8+ layout @f1:f2:f3:f4:f5:f6:f7 f8:f9:f10:f11 with f1..f6
\* and f8..f10 non-empty and free of ':', f7 non-empty and free of ' ', f11
\* free of ':'.  f1..f6 end at the first six colons, f9..f11 are split by
\* the last three, and f7 ends at the first space after the sixth colon.
Fields18(s) ==
    LET col == Positions(s, ":")
        k   == Cardinality(col)
        c(n) == Nth(col, n)
        sp  == SetMin({i \in (c(6) + 1)..Len(s) : s[i] = " "})
    IN  << Between(s, 1, c(1)), Between(s, c(1), c(2)), Between(s, c(2), c(3)),
           Between(s, c(3), c(4)), Between(s, c(4), c(5)), Between(s, c(5), c(6)),
           Between(s, c(6), sp), Between(s, sp, c(k - 2)),
           Between(s, c(k - 2), c(k - 1)), Between(s, c(k - 1), c(k)),
           Between(s, c(k), Len(s) + 1) >>

Form18(s) ==
    /\ Len(s) >= 1 /\ s[1] = "@"
    /\ Cardinality(Positions(s, ":")) >= 9
    /\ LET col == Positions(s, ":")
           k   == Cardinality(col)
           c6  == Nth(col, 6)
           spaces == {i \in (c6 + 1)..Len(s) : s[i] = " "}
       IN  /\ spaces /= {}
           /\ SetMin(spaces) < Nth(col, k - 2)
           /\ \A i \in col : i <= c6 \/ i < SetMin(spaces) \/ i >= Nth(col, k - 2)
           /\ \A n \in 1..10 : Fields18(s)[n] /= <<>>

\* The layout of the claim: f1..f10 non-empty and free of ':', f11 free of
\* newlines.  f1..f6 end at the first six colons, f7 ' ' f8 ends at the
\* seventh, f9 at the eighth, f10 at the ninth.
ClaimedForm18(s) ==
    /\ Len(s) >= 1 /\ s[1] = "@"
    /\ Cardinality(Positions(s, ":")) >= 9
    /\ LET col == Positions(s, ":")
           c(n) == Nth(col, n)
       IN  /\ Between(s, 1, c(1)) /= <<>>
           /\ \A n \in 1..5 : Between(s, c(n), c(n + 1)) /= <<>>
           /\ \E p \in (c(6) + 2)..(c(7) - 2) : s[p] = " "
           /\ Between(s, c(7), c(8)) /= <<>>
           /\ Between(s, c(8), c(9)) /= <<>>
           /\ \A i \in (c(9) + 1)..Len(s) : s[i] /= NL

\* The Illumina layout @g1:g2:g3:g4:g5#m/p with g1..g4 non-empty and free of
\* ':', g5 non-empty and free of '#', m one character other than '/', p
\* non-empty and free of newlines.
FormIllumina(s) ==
    /\ Len(s) >= 1 /\ s[1] = "@"
    /\ Cardinality(Positions(s, ":")) >= 4
    /\ LET col == Positions(s, ":")
           c(n) == Nth(col, n)
           hashes == {i \in (c(4) + 1)..Len(s) : s[i] = "#"}
       IN  /\ Between(s, 1, c(1)) /= <<>>
           /\ \A n \in 1..3 : Between(s, c(n), c(n + 1)) /= <<>>
           /\ hashes /= {}
           /\ LET h == SetMin(hashes)
              IN  /\ h > c(4) + 1
                  /\ Len(s) >= h + 3
                  /\ s[h + 1] /= "/"
                  /\ s[h + 2] = "/"
                  /\ \A i \in (h + 3)..Len(s) : s[i] /= NL

\* C6: str(SequenceIdentifier(s)) is s without its leading and trailing
\* whitespace, whatever the format found.
C6_StrIsTrimmedInput ==
    sid_pc = "printed" => IsTrimOf(sid_str, seqid_arg)

C6_Witness ==
    /\ sid_pc = "printed"
    /\ sid.format = "illumina18"
    /\ sid_str /= seqid_arg

\* C7 (as claimed): a trimmed string is classified illumina18 exactly when
\* it is @f1:f2:f3:f4:f5:f6:f7 f8:f9:f10:f11 with f1..f10 non-empty and free
\* of ':' and f11 any string without newline.
C7_ClaimedGrammar ==
    sid_pc /= "new" =>
        ((sid.format = "illumina18") <=> ClaimedForm18(sid.seqid))

\* C7 (amended): a trimmed string is classified illumina18 exactly when it is
\* @f1:f2:f3:f4:f5:f6:f7 f8:f9:f10:f11 with f1..f6 and f8..f10 non-empty and
\* free of ':', f7 non-empty and free of ' ', and f11 free of ':' (possibly
\* empty); the eleven attributes extracted are then f1..f11, an empty f11
\* being the empty string.
C7_Illumina18Grammar ==
    sid_pc /= "new" =>
        /\ (sid.format = "illumina18") <=> Form18(sid.seqid)
        /\ sid.format = "illumina18" =>
              << sid.instrument_name, sid.run_id, sid.flowcell_id,
                 sid.flowcell_lane, sid.tile_no, sid.x_coord, sid.y_coord,
                 sid.pair_id, sid.bad_read, sid.control_bit_flag,
                 sid.index_sequence >> = Fields18(sid.seqid)

C7_Witness ==
    /\ sid_pc = "constructed"
    /\ sid.format = "illumina18"
    /\ sid.index_sequence = <<>>
    /\ sid.index_sequence /= None

\* C10: a trimmed string that has both layouts as a whole is classified
\* illumina18; it is classified illumina exactly when it has the Illumina
\* layout and not the Illumina 1.8+ one; a string with neither layout has no
\* format and no extracted attribute.
C10_Illumina18First ==
    sid_pc /= "new" =>
        LET a == Form18(sid.seqid)
            b == FormIllumina(sid.seqid)
        IN  /\ a => sid.format = "illumina18"
            /\ (sid.format = "illumina") <=> (b /\ ~a)
            /\ (~a /\ ~b) =>
                  (sid.format = "None" /\ DOMAIN sid = {"seqid", "format"})

C10_Witness ==
    /\ sid_pc = "constructed"
    /\ Form18(sid.seqid) /\ FormIllumina(sid.seqid)
    /\ sid.format = "illumina18"

====
